---- MODULE Spec2Model ----
(***************************************************************************)
(* Model of the page scripts of the CN-EDS-Workshop site:                  *)
(*   scripts/scripts.js   variantClassesToBEM, buildHeroBlock,             *)
(*                        buildAutoBlocks, decorateMain, loadTemplate,     *)
(*                        loadTheme, loadEager, loadLazy, loadDelayed,     *)
(*                        loadPage                                         *)
(*   blocks/hero/hero.js  decorate                                         *)
(*   templates/demo/demo.js decorate                                       *)
(* Three specifications share the module: SpecBEM (the class normalizer),  *)
(* SpecHero (the auto-block pass over a DOM tree) and                      *)
(* SpecPage / SpecPageFair (the eager / lazy / delayed life cycle).        *)
(***************************************************************************)
EXTENDS Naturals, Sequences, FiniteSets, TLC

VARIABLES
  \* ---- variantClassesToBEM ----
  opts,        \* the argument of the call: omitted, or {blockName, blockClasses, variants}
  classList,   \* the element's class tokens, a DOMTokenList (ordered, no duplicates)
  classList0,  \* the tokens before the first call
  after1,      \* the tokens after the first call
  calls,       \* number of calls made so far
  thrown,      \* the exception the last call raised, "none" if it returned
  \* ---- the document and the auto-block pass ----
  tag,         \* tag[n]: tag name of node n (nodes are numbered as they are created)
  href,        \* href[n]: the href of an anchor, "" for other nodes
  cls,         \* cls[n]: class tokens of node n
  kids,        \* kids[n]: element children of node n, in order
  kids0,       \* kids as it was before the auto-block pass
  autoPc,      \* "start" before buildAutoBlocks(main), "passed" after it returned
  text,        \* the text nodes the pass inserted: [parent, data], in order of insertion
  importState, \* import('../blocks/fragment/fragment.js'): none, pending, resolved, rejected
  fragments,   \* the anchors querySelectorAll returned, in document order
  fragLoad,    \* fragLoad[n]: idle, loading, done, failed (anchors only)
  fragElem,    \* fragElem[n]: first element of the fragment fetched for anchor n, 0 if none
  heroLoaded,  \* whether the hero block's module has decorated the block
  log,         \* console.error calls, in order
  \* ---- the page life cycle ----
  pc,          \* the await loadPage is suspended at
  events,      \* the calls made so far, in order
  tasks,       \* tasks[t]: idle, pending, settled, for the loads nothing awaits
  timer,       \* the timer of loadDelayed: idle, armed, fired
  timerDelay,  \* the delay the timer was armed with
  template,    \* toClassName(getMetadata('template'))
  theme,       \* toClassName(getMetadata('theme'))
  innerWidth,  \* window.innerWidth
  fontsFlag,   \* whether sessionStorage holds 'fonts-loaded'
  hostname,    \* window.location.hostname
  hashElement  \* whether location.hash names an element of the document

bemVars == <<opts, classList, classList0, after1, calls, thrown>>

domVars ==
  <<tag, href, cls, kids, kids0, text, autoPc, importState, fragments,
    fragLoad, fragElem, heroLoaded, log>>

pageVars ==
  <<pc, events, tasks, timer, timerDelay, template, theme, innerWidth, fontsFlag,
    hostname, hashElement>>

vars == <<bemVars, domVars, pageVars>>

(***************************************************************************)
(* Bounds.                                                                 *)
(***************************************************************************)
MaxClasses == 2
MaxVariants == 2
MaxCalls == 2
MaxKids == 2

(***************************************************************************)
(* Sequences used as ordered sets and lists.                               *)
(***************************************************************************)
Range(s) == {s[i] : i \in 1..Len(s)}

SeqsUpTo(S, n) == UNION {[1..k -> S] : k \in 0..n}

NoDup(s) == \A i, j \in 1..Len(s) : i # j => s[i] # s[j]

RECURSIVE Without(_, _)
Without(s, x) ==
  IF s = <<>> THEN <<>>
  ELSE IF Head(s) = x THEN Without(Tail(s), x)
  ELSE <<Head(s)>> \o Without(Tail(s), x)

(***************************************************************************)
(* JavaScript values: undefined, null, a string, an array of strings.      *)
(***************************************************************************)
Undefined == [t |-> "undefined", s |-> "", l |-> <<>>]
Null == [t |-> "null", s |-> "", l |-> <<>>]
Str(x) == [t |-> "string", s |-> x, l |-> <<>>]
Arr(xs) == [t |-> "array", s |-> "", l |-> xs]
\* A reference to the element's classList (a DOMTokenList object).
TokenListRef == [t |-> "object", s |-> "", l |-> <<>>]

\* JavaScript truthiness of the values above: undefined, null and "" are falsy,
\* every object (an empty array included) is truthy.
Truthy(v) ==
  CASE v.t = "undefined" -> FALSE
    [] v.t = "null" -> FALSE
    [] v.t = "string" -> v.s # ""
    [] OTHER -> TRUE

(***************************************************************************)
(* DOMTokenList.                                                           *)
(***************************************************************************)
\* ASCII whitespace makes a token invalid for add() (the inputs below only
\* use the space character).
HasWhitespace(s) == \E i \in 1..Len(s) : SubSeq(s, i, i) = " "

\* contains(token): never throws.
Contains(list, token) == token \in Range(list)

\* remove(token)
Remove(list, token) == Without(list, token)

\* add(token): appends the token when absent.
Add(list, token) == IF token \in Range(list) THEN list ELSE Append(list, token)

\* What add(token) throws, "none" when it succeeds.
AddThrows(token) ==
  IF token = "" THEN "SyntaxError"
  ELSE IF HasWhitespace(token) THEN "InvalidCharacterError"
  ELSE "none"

\* The template literal `${blockName}--${variant}`.
BEM(blockName, variant) == blockName \o "--" \o variant

(***************************************************************************)
(* variantClassesToBEM                                                     *)
(***************************************************************************)
\* The guard of line 50: any falsy argument makes the call return at once.
\* (GuardMutantNoBlockName: the guard with the blockName test forgotten.)
GuardMutantNoBlockName(o) ==
  o.given /\ Truthy(o.blockClasses) /\ Truthy(o.variants)
Guard(o) ==
  o.given /\ Truthy(o.blockName) /\ Truthy(o.blockClasses) /\ Truthy(o.variants)

\* Array.isArray(variants) ? variants : [variants]
VariantList(v) == IF v.t = "array" THEN v.l ELSE <<v.s>>

\* One iteration of the forEach callback on the token list `list`.
\* Result: the new list and the exception the iteration raised.
\* (ForEachStepMutantKeepBare: the callback with the remove() forgotten.)
ForEachStepMutantKeepBare(list, blockName, variant) ==
  IF Contains(list, variant)
  THEN [list |-> Add(list, BEM(blockName, variant)), thrown |-> "none"]
  ELSE [list |-> list, thrown |-> "none"]
ForEachStep(list, blockName, variant) ==
  IF Contains(list, variant)
  THEN LET removed == Remove(list, variant)
           token == BEM(blockName, variant)
       IN IF AddThrows(token) # "none"
          THEN [list |-> removed, thrown |-> AddThrows(token)]
          ELSE [list |-> Add(removed, token), thrown |-> "none"]
  ELSE [list |-> list, thrown |-> "none"]

\* variantList.forEach(...): in list order, stopping at the first exception.
\* (ForEachMutantStopAfterFirst: a loop that returns after the first variant
\* it has converted.)
RECURSIVE ForEachMutantStopAfterFirst(_, _, _)
ForEachMutantStopAfterFirst(list, blockName, variantList) ==
  IF variantList = <<>> THEN [list |-> list, thrown |-> "none"]
  ELSE LET r == ForEachStep(list, blockName, Head(variantList))
       IN IF r.thrown # "none" \/ r.list # list THEN r
          ELSE ForEachMutantStopAfterFirst(r.list, blockName, Tail(variantList))
RECURSIVE ForEach(_, _, _)
ForEach(list, blockName, variantList) ==
  IF variantList = <<>> THEN [list |-> list, thrown |-> "none"]
  ELSE LET r == ForEachStep(list, blockName, Head(variantList))
       IN IF r.thrown # "none" THEN r
          ELSE ForEach(r.list, blockName, Tail(variantList))

\* The whole function, applied to the element's token list.
variantClassesToBEM(o, list) ==
  IF ~Guard(o) THEN [list |-> list, thrown |-> "none"]
  ELSE ForEach(list, o.blockName.s, VariantList(o.variants))

(***************************************************************************)
(* blocks/hero/hero.js                                                     *)
(***************************************************************************)
heroVariants == <<"auto-block", "dark-background">>
heroBlockName == "hero"
\* decorate(block): variantClassesToBEM on the block's classList.
heroDecorate(list) ==
  variantClassesToBEM(
    [given |-> TRUE, blockName |-> Str(heroBlockName),
     blockClasses |-> TokenListRef, variants |-> Arr(heroVariants)], list).list

(***************************************************************************)
(* Inputs of the normalizer.                                               *)
(***************************************************************************)
TokenPool == {"dark", "wide", "hero--dark"}
VariantPool == TokenPool \cup {""}
BlockNameInputs == {Undefined, Null, Str(""), Str("hero"), Str("my hero")}
BlockClassesInputs == {Undefined, Null, TokenListRef}
VariantsInputs ==
  {Undefined, Null} \cup {Str(v) : v \in VariantPool}
    \cup {Arr(l) : l \in SeqsUpTo(VariantPool, MaxVariants)}
Omitted ==
  [given |-> FALSE, blockName |-> Undefined, blockClasses |-> Undefined,
   variants |-> Undefined]
OptionsInputs ==
  {Omitted} \cup
  [given : {TRUE}, blockName : BlockNameInputs,
   blockClasses : BlockClassesInputs, variants : VariantsInputs]
ClassListInputs == {l \in SeqsUpTo(TokenPool, MaxClasses) : NoDup(l)}

\* The variables of the normalizer while another part of the site is modelled.
IdleBEM ==
  /\ opts = Omitted
  /\ classList = <<>>
  /\ classList0 = <<>>
  /\ after1 = <<>>
  /\ calls = 0
  /\ thrown = "none"

\* The variables of the document while another part of the site is modelled.
IdleDOM ==
  /\ tag = <<>>
  /\ href = <<>>
  /\ cls = <<>>
  /\ kids = <<>>
  /\ kids0 = <<>>
  /\ text = <<>>
  /\ autoPc = "start"
  /\ importState = "none"
  /\ fragments = <<>>
  /\ fragLoad = <<>>
  /\ fragElem = <<>>
  /\ heroLoaded = FALSE
  /\ log = <<>>

\* The loads the life cycle starts and does not await.
TaskNames ==
  {"eager:loadFonts", "lazy:loadHeader", "lazy:loadFooter",
   "lazy:loadCSS(lazy-styles)", "lazy:loadFonts", "import(delayed)"}

\* The variables of the life cycle while another part of the site is modelled.
IdlePage ==
  /\ pc = "start"
  /\ events = <<>>
  /\ tasks = [t \in TaskNames |-> "idle"]
  /\ timer = "idle"
  /\ timerDelay = 0
  /\ template = ""
  /\ theme = ""
  /\ innerWidth = 0
  /\ fontsFlag = FALSE
  /\ hostname = ""
  /\ hashElement = FALSE

InitBEM ==
  /\ IdleDOM
  /\ IdlePage
  /\ opts \in OptionsInputs
  /\ classList \in ClassListInputs
  /\ classList0 = classList
  /\ after1 = classList
  /\ calls = 0
  /\ thrown = "none"

\* One call of variantClassesToBEM(opts) on the element.
Call ==
  /\ calls < MaxCalls
  /\ LET r == variantClassesToBEM(opts, classList)
     IN /\ classList' = r.list
        /\ thrown' = r.thrown
        /\ after1' = IF calls = 0 THEN r.list ELSE after1
  /\ calls' = calls + 1
  /\ UNCHANGED <<opts, classList0>>
  /\ UNCHANGED <<domVars, pageVars>>

NextBEM == Call

SpecBEM == InitBEM /\ [][NextBEM]_vars

(***************************************************************************)
(* The document: a tree of element nodes.  A DOM value is a record         *)
(* [tag, href, cls, kids] of sequences indexed by node number.             *)
(***************************************************************************)
BodyNode == 1
MainNode == 2

DOM == [tag |-> tag, href |-> href, cls |-> cls, kids |-> kids]

\* document.createElement(t): a new node without parent; its number is NewId(d).
NewId(d) == Len(d.tag) + 1
CreateElement(d, t, c) ==
  [tag |-> Append(d.tag, t), href |-> Append(d.href, ""),
   cls |-> Append(d.cls, c), kids |-> Append(d.kids, <<>>)]

\* node.parentElement, 0 for null.
Parent(k, n) ==
  IF \E m \in 1..Len(k) : n \in Range(k[m])
  THEN CHOOSE m \in 1..Len(k) : n \in Range(k[m])
  ELSE 0

\* Removing a node from its parent, as every insertion of an existing node does first.
Detach(k, n) == [m \in 1..Len(k) |-> Without(k[m], n)]

\* parent.append(n) / parent.appendChild(n)
AppendChild(k, p, n) == [Detach(k, n) EXCEPT ![p] = Append(@, n)]

\* parent.prepend(n)
Prepend(k, p, n) == [Detach(k, n) EXCEPT ![p] = <<n>> \o @]

\* old.replaceWith(new): nothing happens when old has no parent.
ReplaceWith(k, old, new) ==
  LET p == Parent(k, old)
  IN IF p = 0 THEN k
     ELSE [Detach(k, new) EXCEPT
             ![p] = [i \in 1..Len(@) |-> IF @[i] = old THEN new ELSE @[i]]]

\* old.replaceWith(null): the argument is not a node, so it is converted to a
\* string and old gives way to a text node holding it.  The result is the
\* element children and the parent that received the text node (0 when old
\* has no parent and nothing happens).
ReplaceWithNull(k, old) ==
  LET p == Parent(k, old)
  IN [kids |-> IF p = 0 THEN k ELSE Detach(k, old), parent |-> p, data |-> "null"]

\* The subtree of n in document order (n first).
RECURSIVE Preorder(_, _)
RECURSIVE PreorderAll(_, _)
Preorder(k, n) == <<n>> \o PreorderAll(k, k[n])
PreorderAll(k, ns) ==
  IF ns = <<>> THEN <<>> ELSE Preorder(k, Head(ns)) \o PreorderAll(k, Tail(ns))

Descendants(k, n) == Tail(Preorder(k, n))

IndexOf(s, x) == CHOOSE i \in 1..Len(s) : s[i] = x

\* a.compareDocumentPosition(b) & Node.DOCUMENT_POSITION_PRECEDING, for two
\* nodes of the sequence s of nodes in document order: b comes before a.
Preceding(s, a, b) == IndexOf(s, b) < IndexOf(s, a)

\* root.querySelector(tagName): the first descendant with that tag, 0 for null.
QuerySelector(d, root, t) ==
  LET found == SelectSeq(Descendants(d.kids, root), LAMBDA n : d.tag[n] = t)
  IN IF found = <<>> THEN 0 ELSE Head(found)

\* Substring test: String.prototype.includes and the selector operator *=.
Includes(s, sub) ==
  \E i \in 1..Len(s) :
    i + Len(sub) - 1 <= Len(s) /\ SubSeq(s, i, i + Len(sub) - 1) = sub

\* The attribute selector [href*="/fragments/"].
HrefContainsFragments(h) == Includes(h, "/fragments/")

\* main.querySelectorAll('a[href*="/fragments/"]'): a static list, document order.
QueryFragmentAnchors(d, root) ==
  SelectSeq(Descendants(d.kids, root),
            LAMBDA n : d.tag[n] = "a" /\ HrefContainsFragments(d.href[n]))

\* Whether node n is in the page (a descendant of body, or body).
InPage(k, n) == n \in Range(Preorder(k, BodyNode))

(***************************************************************************)
(* buildBlock(blockName, {elems}) of the block library: a new block        *)
(* element of class blockName that receives the given elements, moved in   *)
(* the order given.  The row and cell wrappers the library puts around the *)
(* content are not represented: the block's kids are its content.          *)
(***************************************************************************)
RECURSIVE AppendAll(_, _, _)
AppendAll(k, p, elems) ==
  IF elems = <<>> THEN k
  ELSE AppendAll(AppendChild(k, p, Head(elems)), p, Tail(elems))

buildBlock(d, blockName, elems) ==
  LET d1 == CreateElement(d, "div", <<blockName>>)
  IN [d1 EXCEPT !.kids = AppendAll(d1.kids, NewId(d), elems)]

(***************************************************************************)
(* buildHeroBlock(main).  Result: the document.                            *)
(***************************************************************************)
\* The elements handed to buildBlock: [picture, h1].
\* (HeroElemsMutantSwapped: the two elements in the wrong order.)
HeroElemsMutantSwapped(picture, h1) == <<h1, picture>>
HeroElems(picture, h1) == <<picture, h1>>

\* The condition of line 68.
\* (HeroConditionMutantNoOrder: the condition without the position test.)
HeroConditionMutantNoOrder(d, main) ==
  QuerySelector(d, main, "h1") # 0 /\ QuerySelector(d, main, "picture") # 0
HeroCondition(d, main) ==
  LET h1 == QuerySelector(d, main, "h1")
      picture == QuerySelector(d, main, "picture")
  IN h1 # 0 /\ picture # 0 /\ Preceding(Descendants(d.kids, main), h1, picture)

buildHeroBlock(d, main) ==
  LET h1 == QuerySelector(d, main, "h1")
      picture == QuerySelector(d, main, "picture")
      section == NewId(d)
      d1 == CreateElement(d, "div", <<>>)
      heroBlock == NewId(d1)
      d2 == buildBlock(d1, "hero", HeroElems(picture, h1))
      d3 == [d2 EXCEPT !.cls[heroBlock] = Add(@, "auto-block")]
      d4 == [d3 EXCEPT !.kids = AppendChild(@, section, heroBlock)]
      d5 == [d4 EXCEPT !.kids = Prepend(@, main, section)]
  IN IF HeroCondition(d, main) THEN d5 ELSE d

(***************************************************************************)
(* buildAutoBlocks(main): the synchronous part.  The fragment anchors are  *)
(* collected and the fragment module import is started (its callbacks run  *)
(* later, see ImportResolve), then the hero block is built.  The calls     *)
(* inside the try act on main and on elements just queried or created and  *)
(* none of them throws, so the catch logs nothing.                         *)
(***************************************************************************)
buildAutoBlocks(d, main) ==
  LET anchors == QueryFragmentAnchors(d, main)
  IN [dom |-> buildHeroBlock(d, main),
      fragments |-> anchors,
      importState |-> IF Len(anchors) > 0 THEN "pending" ELSE "none",
      logged |-> <<>>]

BuildAutoBlocks ==
  /\ autoPc = "start"
  /\ LET r == buildAutoBlocks(DOM, MainNode)
     IN /\ tag' = r.dom.tag
        /\ href' = r.dom.href
        /\ cls' = r.dom.cls
        /\ kids' = r.dom.kids
        /\ fragments' = r.fragments
        /\ importState' = r.importState
        /\ fragLoad' = [n \in Range(r.fragments) |-> "idle"]
        /\ fragElem' = [n \in Range(r.fragments) |-> 0]
        /\ log' = log \o r.logged
  /\ autoPc' = "passed"
  /\ UNCHANGED <<kids0, text, heroLoaded>>
  /\ UNCHANGED <<bemVars, pageVars>>

\* The import of the fragment module resolved: the forEach callback runs for
\* every anchor up to its await, which starts that anchor's loadFragment.
ImportResolve ==
  /\ importState = "pending"
  /\ importState' = "resolved"
  /\ fragLoad' = [n \in Range(fragments) |-> "loading"]
  /\ UNCHANGED <<tag, href, cls, kids, kids0, autoPc, text, fragments,
                 fragElem, heroLoaded, log>>
  /\ UNCHANGED <<bemVars, pageVars>>

\* The import rejected: the promise has no rejection handler, nothing runs.
ImportReject ==
  /\ importState = "pending"
  /\ importState' = "rejected"
  /\ UNCHANGED <<tag, href, cls, kids, kids0, autoPc, text, fragments,
                 fragLoad, fragElem, heroLoaded, log>>
  /\ UNCHANGED <<bemVars, pageVars>>

\* loadFragment of anchor a resolved with a fragment that has a first element:
\* fragment.parentElement.replaceWith(frag.firstElementChild).
FragmentLoaded(a) ==
  /\ fragLoad[a] = "loading"
  /\ LET d1 == CreateElement(DOM, "div", <<"section">>)
         first == NewId(DOM)
         p == Parent(kids, a)
     IN /\ tag' = d1.tag
        /\ href' = d1.href
        /\ cls' = d1.cls
        /\ fragElem' = [fragElem EXCEPT ![a] = first]
        /\ IF p = 0
           THEN /\ kids' = d1.kids
                /\ fragLoad' = [fragLoad EXCEPT ![a] = "failed"]
                /\ log' = Append(log, "Fragment loading failed")
           ELSE /\ kids' = ReplaceWith(d1.kids, p, first)
                /\ fragLoad' = [fragLoad EXCEPT ![a] = "done"]
                /\ log' = log
  /\ UNCHANGED <<kids0, autoPc, text, importState, fragments, heroLoaded>>
  /\ UNCHANGED <<bemVars, pageVars>>

\* loadFragment of anchor a resolved with a fragment that has no element:
\* frag.firstElementChild is null and fragment.parentElement.replaceWith(null)
\* puts the text "null" in the place of the anchor's parent.  Nothing is
\* thrown, nothing is logged.
FragmentEmpty(a) ==
  /\ fragLoad[a] = "loading"
  /\ LET p == Parent(kids, a)
     IN IF p = 0
        THEN /\ fragLoad' = [fragLoad EXCEPT ![a] = "failed"]
             /\ log' = Append(log, "Fragment loading failed")
             /\ UNCHANGED <<kids, text>>
        ELSE LET r == ReplaceWithNull(kids, p)
             IN /\ kids' = r.kids
                /\ text' = IF r.parent = 0 THEN text
                           ELSE Append(text, [parent |-> r.parent, data |-> r.data])
                /\ fragLoad' = [fragLoad EXCEPT ![a] = "done"]
                /\ log' = log
  /\ UNCHANGED <<tag, href, cls, kids0, autoPc, importState, fragments,
                 fragElem, heroLoaded>>
  /\ UNCHANGED <<bemVars, pageVars>>

\* loadFragment of anchor a rejected, or resolved with null: caught and logged.
FragmentFailed(a) ==
  /\ fragLoad[a] = "loading"
  /\ fragLoad' = [fragLoad EXCEPT ![a] = "failed"]
  /\ log' = Append(log, "Fragment loading failed")
  /\ UNCHANGED <<tag, href, cls, kids, kids0, autoPc, text, importState,
                 fragments, fragElem, heroLoaded>>
  /\ UNCHANGED <<bemVars, pageVars>>

\* The hero block of main, 0 when main has none.
HeroBlockOf(d, main) ==
  LET found == SelectSeq(Descendants(d.kids, main),
                         LAMBDA n : Contains(d.cls[n], "hero"))
  IN IF found = <<>> THEN 0 ELSE Head(found)

\* The hero block's module is loaded with its section and decorates the block
\* (a job of its own, run while the caller of loadSection is still waiting).
DecorateHero ==
  /\ autoPc = "passed"
  /\ ~heroLoaded
  /\ HeroBlockOf(DOM, MainNode) # 0
  /\ cls' = [cls EXCEPT ![HeroBlockOf(DOM, MainNode)] = heroDecorate(@)]
  /\ heroLoaded' = TRUE
  /\ UNCHANGED <<tag, href, kids, kids0, autoPc, text, importState,
                 fragments, fragLoad, fragElem, log>>
  /\ UNCHANGED <<bemVars, pageVars>>

(***************************************************************************)
(* Documents the pass is run on: body > main > up to MaxKids items, each   *)
(* item an element with its element children.                              *)
(***************************************************************************)
TagOf(kind) == IF kind \in {"a-fragment", "a-link"} THEN "a" ELSE kind
HrefOf(kind) ==
  CASE kind = "a-fragment" -> "https://site.example/fragments/promo"
    [] kind = "a-link" -> "https://site.example/about"
    [] OTHER -> ""

ItemPool ==
  { <<"h1">>, <<"picture">>, <<"p">>, <<"a-fragment">>,
    <<"p", "picture">>, <<"p", "a-fragment">>, <<"p", "a-link">>,
    <<"p", "a-fragment", "a-fragment">>, <<"p", "picture", "h1">>,
    <<"h1", "picture">>, <<"h1", "a-fragment">> }

Docs == SeqsUpTo(ItemPool, MaxKids)

EmptyPage ==
  [tag |-> <<"body", "main">>, href |-> <<"", "">>, cls |-> <<<<>>, <<>>>>,
   kids |-> <<<<MainNode>>, <<>>>>]

\* The item's top element appended to main, its children appended to it.
AddItem(d, item) ==
  LET top == NewId(d)
      n == Len(item) - 1
  IN [tag |-> d.tag \o [i \in 1..(n + 1) |-> TagOf(item[i])],
      href |-> d.href \o [i \in 1..(n + 1) |-> HrefOf(item[i])],
      cls |-> d.cls \o [i \in 1..(n + 1) |-> <<>>],
      kids |-> [d.kids EXCEPT ![MainNode] = Append(@, top)]
                 \o <<[i \in 1..n |-> top + i]>> \o [i \in 1..n |-> <<>>]]

RECURSIVE Page(_, _)
Page(d, items) ==
  IF items = <<>> THEN d ELSE Page(AddItem(d, Head(items)), Tail(items))

InitHero ==
  /\ IdleBEM
  /\ IdlePage
  /\ \E doc \in Docs :
       LET d == Page(EmptyPage, doc)
       IN /\ tag = d.tag
          /\ href = d.href
          /\ cls = d.cls
          /\ kids = d.kids
          /\ kids0 = d.kids
  /\ text = <<>>
  /\ autoPc = "start"
  /\ importState = "none"
  /\ fragments = <<>>
  /\ fragLoad = <<>>
  /\ fragElem = <<>>
  /\ heroLoaded = FALSE
  /\ log = <<>>

NextHero ==
  \/ BuildAutoBlocks
  \/ ImportResolve
  \/ ImportReject
  \/ \E a \in Range(fragments) : FragmentLoaded(a)
  \/ \E a \in Range(fragments) : FragmentEmpty(a)
  \/ \E a \in Range(fragments) : FragmentFailed(a)
  \/ DecorateHero

\* The auto-block pass on its own.
SpecHero == InitHero /\ [][NextHero]_vars

(***************************************************************************)
(* templates/demo/demo.js: decorate(main) appends the demo markup to main. *)
(***************************************************************************)
demoDecorate(d, main) ==
  LET box == NewId(d)
      d1 == CreateElement(d, "div", <<"demo-template">>)
      d2 == CreateElement(d1, "h2", <<>>)
      d3 == CreateElement(d2, "p", <<>>)
      k1 == AppendChild(d3.kids, box, box + 1)
      k2 == AppendChild(k1, box, box + 2)
  IN [d3 EXCEPT !.kids = AppendChild(k2, main, box)]

(***************************************************************************)
(* The page life cycle: loadPage, loadEager, loadLazy, loadDelayed.        *)
(* pc is the await the loadPage chain is suspended at; every action is the *)
(* code that runs between two awaits.  Loads that are started and not      *)
(* awaited are tasks that settle on their own.                             *)
(***************************************************************************)
DesktopWidth == 900
DelayedTimeout == 3000

FontTasks == {"eager:loadFonts", "lazy:loadFonts"}

Count(s, x) == Cardinality({i \in 1..Len(s) : s[i] = x})

\* The calls of an event list that start a task put it in flight.
StartTasks(ts, evs) ==
  [t \in TaskNames |-> IF t \in Range(evs) THEN "pending" ELSE ts[t]]

\* loadPage: the phase that follows the one that has just returned.
\* (loadPageMutantDelayedFirst: loadDelayed called before loadLazy.)
loadPageMutantDelayedFirst(returned) ==
  CASE returned = "eager" -> "delayed"
    [] returned = "delayed" -> "lazy"
    [] OTHER -> "end"
loadPage(returned) ==
  CASE returned = "eager" -> "lazy"
    [] returned = "lazy" -> "delayed"
    [] OTHER -> "end"

\* loadTemplate's catch: the error is logged and loadTemplate returns.
\* (loadTemplateCatchMutantRethrow: loadTemplate without its try / catch.)
loadTemplateCatchMutantRethrow(name) ==
  [pc |-> "rejected", events |-> <<"loadEager:throw">>, logged |-> <<>>]
loadTemplateCatch(name) ==
  [pc |-> "templateReturned",
   events |-> <<"console.error(template)", "loadTemplate:return">>,
   logged |-> <<"failed to load template " \o name>>]

\* loadTheme's catch: the error is logged and loadTheme returns.
loadThemeCatch(name) ==
  [pc |-> "themeReturned",
   events |-> <<"console.error(theme)", "loadTheme:return">>,
   logged |-> <<"failed to load theme " \o name>>]

\* decorateMain(main): the decoration steps in call order.
\* (decorateMainMutantSectionsFirst: sections decorated before auto-blocking.)
decorateMainMutantSectionsFirst ==
  <<"decorateButtons", "decorateIcons", "decorateSections", "buildAutoBlocks",
    "decorateBlocks">>
decorateMain ==
  <<"decorateButtons", "decorateIcons", "buildAutoBlocks", "decorateSections",
    "decorateBlocks">>

\* The end of loadEager (lines 189-196): fonts are started, not awaited, on a
\* wide viewport or when the session flag is set.
EagerTail(width, flag) ==
  (IF width >= DesktopWidth \/ flag THEN <<"eager:loadFonts">> ELSE <<>>)
    \o <<"loadEager:return">>

\* The rest of loadLazy once loadSections has resolved (lines 207-215).
LazyTail(hashEl) ==
  (IF hashEl THEN <<"scrollIntoView">> ELSE <<>>)
    \o <<"lazy:loadHeader", "lazy:loadFooter", "lazy:loadCSS(lazy-styles)",
         "lazy:loadFonts", "loadLazy:return">>

\* loadPage() is called: loadEager runs up to its first await.
StartPage ==
  /\ pc = "start"
  /\ LET main == QuerySelector(DOM, BodyNode, "main")
         head == <<"loadEager:call", "lang", "decorateTemplateAndTheme">>
     IN IF main = 0
        THEN /\ events' = events \o head \o EagerTail(innerWidth, fontsFlag)
             /\ tasks' = StartTasks(tasks, EagerTail(innerWidth, fontsFlag))
             /\ pc' = "eagerReturned"
        ELSE IF template # ""
        THEN /\ events' = events \o head \o <<"loadTemplate:call", "loadCSS(template)">>
             /\ tasks' = tasks
             /\ pc' = "templateCss"
        ELSE /\ events' = events \o head \o <<"loadTemplate:call", "loadTemplate:return">>
             /\ tasks' = tasks
             /\ pc' = "templateReturned"
  /\ UNCHANGED <<timer, timerDelay, template, theme, innerWidth, fontsFlag,
                 hostname, hashElement>>
  /\ UNCHANGED <<bemVars, domVars>>

\* A step of the chain that only moves pc, appends events and logs.
Chain(newPc, evs, logged) ==
  /\ pc' = newPc
  /\ events' = events \o evs
  /\ log' = log \o logged
  /\ UNCHANGED <<tasks, timer, timerDelay, template, theme, innerWidth, fontsFlag,
                 hostname, hashElement>>
  /\ UNCHANGED <<tag, href, cls, kids, kids0, autoPc, text, importState,
                 fragments, fragLoad, fragElem, heroLoaded>>
  /\ UNCHANGED bemVars

\* loadCSS of the template stylesheet resolved: the module import starts.
TemplateCssLoaded ==
  /\ pc = "templateCss"
  /\ Chain("templateImport", <<"import(template)">>, <<>>)

\* loadCSS of the template stylesheet rejected.
TemplateCssFailed ==
  /\ pc = "templateCss"
  /\ LET c == loadTemplateCatch(template)
     IN Chain(c.pc, <<"loadCSS(template):rejected">> \o c.events, c.logged)

\* The template module was imported.  The demo template has a default export
\* that appends its markup to main; another module may have none.
TemplateImported ==
  /\ pc = "templateImport"
  /\ \E hasDefault \in (IF template = "demo" THEN {TRUE} ELSE BOOLEAN) :
       IF hasDefault
       THEN /\ pc' = "templateDecorate"
            /\ events' = Append(events, "template.default(main)")
            /\ LET d == IF template = "demo" THEN demoDecorate(DOM, MainNode) ELSE DOM
               IN /\ tag' = d.tag
                  /\ href' = d.href
                  /\ cls' = d.cls
                  /\ kids' = d.kids
       ELSE /\ pc' = "templateReturned"
            /\ events' = Append(events, "loadTemplate:return")
            /\ UNCHANGED <<tag, href, cls, kids>>
  /\ UNCHANGED <<tasks, timer, timerDelay, template, theme, innerWidth, fontsFlag,
                 hostname, hashElement>>
  /\ UNCHANGED <<kids0, autoPc, text, importState, fragments, fragLoad,
                 fragElem, heroLoaded, log>>
  /\ UNCHANGED bemVars

\* The import of the template module rejected (no such file).
TemplateImportFailed ==
  /\ pc = "templateImport"
  /\ LET c == loadTemplateCatch(template)
     IN Chain(c.pc, <<"import(template):rejected">> \o c.events, c.logged)

\* The promise of the template's default export resolved.
TemplateDecorated ==
  /\ pc = "templateDecorate"
  /\ Chain("templateReturned", <<"loadTemplate:return">>, <<>>)

\* The template's default export threw or its promise rejected.
TemplateDecorateFailed ==
  /\ pc = "templateDecorate"
  /\ template # "demo"
  /\ LET c == loadTemplateCatch(template)
     IN Chain(c.pc, <<"template.default(main):rejected">> \o c.events, c.logged)

\* await loadTemplate(main) is over: loadTheme() runs up to its await.
ThemeStart ==
  /\ pc = "templateReturned"
  /\ IF theme # ""
     THEN Chain("themeCss", <<"loadTheme:call", "loadCSS(theme)">>, <<>>)
     ELSE Chain("themeReturned", <<"loadTheme:call", "loadTheme:return">>, <<>>)

\* loadCSS of the theme stylesheet resolved.
ThemeCssLoaded ==
  /\ pc = "themeCss"
  /\ Chain("themeReturned", <<"loadTheme:return">>, <<>>)

\* loadCSS of the theme stylesheet rejected.
ThemeCssFailed ==
  /\ pc = "themeCss"
  /\ LET c == loadThemeCatch(theme)
     IN Chain(c.pc, <<"loadCSS(theme):rejected">> \o c.events, c.logged)

\* await loadTheme() is over: decorateMain(main), the appear class, and the
\* call of loadSection on the first section (lines 184-186).
DecorateAndShow ==
  /\ pc = "themeReturned"
  /\ pc' = "firstSection"
  /\ events' = events \o decorateMain \o <<"appear", "loadSection:call">>
  /\ LET r == buildAutoBlocks(DOM, MainNode)
     IN /\ tag' = r.dom.tag
        /\ href' = r.dom.href
        /\ cls' = [r.dom.cls EXCEPT ![BodyNode] = Add(@, "appear")]
        /\ kids' = r.dom.kids
        /\ fragments' = r.fragments
        /\ importState' = r.importState
        /\ fragLoad' = [n \in Range(r.fragments) |-> "idle"]
        /\ fragElem' = [n \in Range(r.fragments) |-> 0]
        /\ log' = log \o r.logged
  /\ kids0' = kids
  /\ autoPc' = "passed"
  /\ UNCHANGED <<tasks, timer, timerDelay, template, theme, innerWidth, fontsFlag,
                 hostname, hashElement>>
  /\ UNCHANGED <<text, heroLoaded>>
  /\ UNCHANGED bemVars

\* loadSection and loadSections are the block library's: whether their
\* promise resolves or rejects, and whether the blocks of the section have
\* been decorated by then (DecorateHero), is theirs to decide.
\*
\* loadSection of the first section resolved: the end of loadEager runs
\* (lines 189-196).
FirstSectionLoaded ==
  /\ pc = "firstSection"
  /\ pc' = "eagerReturned"
  /\ events' = events \o <<"loadSection:settled">> \o EagerTail(innerWidth, fontsFlag)
  /\ tasks' = StartTasks(tasks, EagerTail(innerWidth, fontsFlag))
  /\ UNCHANGED <<timer, timerDelay, template, theme, innerWidth, fontsFlag,
                 hostname, hashElement>>
  /\ UNCHANGED <<bemVars, domVars>>

\* loadSection of the first section rejected: nothing in loadEager or loadPage
\* catches it, the font check is not reached and loadPage rejects.
FirstSectionRejected ==
  /\ pc = "firstSection"
  /\ pc' = "rejected"
  /\ events' = events \o <<"loadSection:rejected", "loadEager:throw">>
  /\ UNCHANGED <<tasks, timer, timerDelay, template, theme, innerWidth, fontsFlag,
                 hostname, hashElement>>
  /\ UNCHANGED <<bemVars, domVars>>

\* await loadEager(document) is over and loadPage goes on with loadLazy, which
\* calls loadSections(main) and awaits it.
LazyStart ==
  /\ \/ pc = "eagerReturned" /\ loadPage("eager") = "lazy"
     \/ pc = "delayedReturned" /\ loadPage("delayed") = "lazy"
  /\ pc' = "lazySections"
  /\ events' = events \o <<"loadLazy:call", "loadSections:call">>
  /\ UNCHANGED <<tasks, timer, timerDelay, template, theme, innerWidth, fontsFlag,
                 hostname, hashElement>>
  /\ UNCHANGED <<bemVars, domVars>>

\* loadSections(main) resolved: the rest of loadLazy runs and returns.
LazySectionsLoaded ==
  /\ pc = "lazySections"
  /\ pc' = "lazyReturned"
  /\ events' = events \o <<"loadSections:settled">> \o LazyTail(hashElement)
  /\ tasks' = StartTasks(tasks, LazyTail(hashElement))
  /\ UNCHANGED <<timer, timerDelay, template, theme, innerWidth, fontsFlag,
                 hostname, hashElement>>
  /\ UNCHANGED <<bemVars, domVars>>

\* loadSections(main) rejected, and with it loadLazy and loadPage: nothing
\* catches it, the header and footer are not loaded and no timer is armed.
LazySectionsRejected ==
  /\ pc = "lazySections"
  /\ pc' = "rejected"
  /\ events' = events \o <<"loadSections:rejected", "loadLazy:throw">>
  /\ UNCHANGED <<tasks, timer, timerDelay, template, theme, innerWidth, fontsFlag,
                 hostname, hashElement>>
  /\ UNCHANGED <<bemVars, domVars>>

\* loadDelayed(): window.setTimeout(() => import('./delayed.js'), 3000).
Delayed ==
  /\ \/ pc = "lazyReturned" /\ loadPage("lazy") = "delayed"
     \/ pc = "eagerReturned" /\ loadPage("eager") = "delayed"
  /\ pc' = "delayedReturned"
  /\ events' = events \o <<"loadDelayed:call", "setTimeout">>
  /\ timer' = "armed"
  /\ timerDelay' = DelayedTimeout
  /\ UNCHANGED <<tasks, template, theme, innerWidth, fontsFlag, hostname,
                 hashElement>>
  /\ UNCHANGED <<bemVars, domVars>>

\* loadPage returns.
PageDone ==
  /\ \/ pc = "delayedReturned" /\ loadPage("delayed") = "end"
     \/ pc = "lazyReturned" /\ loadPage("lazy") = "end"
  /\ pc' = "done"
  /\ UNCHANGED <<events, tasks, timer, timerDelay, template, theme, innerWidth,
                 fontsFlag, hostname, hashElement>>
  /\ UNCHANGED <<bemVars, domVars>>

\* The timer fires: the delayed module is imported.
TimerFires ==
  /\ timer = "armed"
  /\ timer' = "fired"
  /\ tasks' = [tasks EXCEPT !["import(delayed)"] = "pending"]
  /\ UNCHANGED <<pc, events, timerDelay, template, theme, innerWidth, fontsFlag,
                 hostname, hashElement>>
  /\ UNCHANGED <<bemVars, domVars>>

\* A load that nothing awaits settles.  Nothing handles its failure (an
\* unhandled rejection); when loadFonts' stylesheet loaded, the session flag is
\* set, unless the host is localhost.
TaskSettles(t) ==
  /\ tasks[t] = "pending"
  /\ tasks' = [tasks EXCEPT ![t] = "settled"]
  /\ \E ok \in BOOLEAN :
       fontsFlag' =
         IF ok /\ t \in FontTasks /\ ~Includes(hostname, "localhost")
         THEN TRUE ELSE fontsFlag
  /\ UNCHANGED <<pc, events, timer, timerDelay, template, theme, innerWidth,
                 hostname, hashElement>>
  /\ UNCHANGED <<bemVars, domVars>>

(***************************************************************************)
(* Pages the life cycle is run on.                                         *)
(***************************************************************************)
TemplateNames == {"", "demo", "landing"}
ThemeNames == {"", "dark"}
\* Browser environments: viewport width, session flag, host name, and whether
\* the location hash names an element.  Fonts are started in the eager phase
\* for the width in the first, for the flag in the second, not at all in the
\* third; the host keeps the flag from being set in the first.
Environments ==
  { [innerWidth |-> 1280, fontsFlag |-> FALSE, hostname |-> "localhost",
     hashElement |-> TRUE],
    [innerWidth |-> 600, fontsFlag |-> TRUE, hostname |-> "www.site.example",
     hashElement |-> FALSE],
    [innerWidth |-> 600, fontsFlag |-> FALSE, hostname |-> "www.site.example",
     hashElement |-> FALSE] }
NoMainPage == [tag |-> <<"body">>, href |-> <<"">>, cls |-> <<<<>>>>, kids |-> <<<<>>>>]
PageDocs == {NoMainPage, Page(EmptyPage, <<<<"p", "picture">>, <<"h1">>>>)}

InitPage ==
  /\ IdleBEM
  /\ \E d \in PageDocs :
       /\ tag = d.tag
       /\ href = d.href
       /\ cls = d.cls
       /\ kids = d.kids
       /\ kids0 = d.kids
  /\ text = <<>>
  /\ autoPc = "start"
  /\ importState = "none"
  /\ fragments = <<>>
  /\ fragLoad = <<>>
  /\ fragElem = <<>>
  /\ heroLoaded = FALSE
  /\ log = <<>>
  /\ pc = "start"
  /\ events = <<>>
  /\ tasks = [t \in TaskNames |-> "idle"]
  /\ timer = "idle"
  /\ timerDelay = 0
  /\ template \in TemplateNames
  /\ theme \in ThemeNames
  /\ \E env \in Environments :
       /\ innerWidth = env.innerWidth
       /\ fontsFlag = env.fontsFlag
       /\ hostname = env.hostname
       /\ hashElement = env.hashElement

NextPage ==
  \/ StartPage
  \/ TemplateCssLoaded
  \/ TemplateCssFailed
  \/ TemplateImported
  \/ TemplateImportFailed
  \/ TemplateDecorated
  \/ TemplateDecorateFailed
  \/ ThemeStart
  \/ ThemeCssLoaded
  \/ ThemeCssFailed
  \/ DecorateAndShow
  \/ DecorateHero
  \/ FirstSectionLoaded
  \/ FirstSectionRejected
  \/ LazyStart
  \/ LazySectionsLoaded
  \/ LazySectionsRejected
  \/ Delayed
  \/ PageDone
  \/ TimerFires
  \/ \E t \in TaskNames : TaskSettles(t)

SpecPage == InitPage /\ [][NextPage]_vars

\* Every load that was started settles, and the timer fires.  The progress
\* of loadPage does not depend on the browser environment (it only decides
\* whether fonts are started early and whether the page scrolls), so progress
\* is checked in the desktop environment.
InitPageFair == InitPage /\ innerWidth >= DesktopWidth
SpecPageFair == InitPageFair /\ [][NextPage]_vars /\ WF_vars(NextPage)

\* The site as a whole is the page life cycle.
Init == InitPage
Next == NextPage
Spec == Init /\ [][Next]_vars

(***************************************************************************)
(* Claims about variantClassesToBEM (checked under SpecBEM).               *)
(***************************************************************************)
\* The call is made with a non-empty block name, the element's classList and
\* a truthy variants argument.
ArgsPresent ==
  /\ opts.given
  /\ opts.blockName.t = "string" /\ opts.blockName.s # ""
  /\ opts.blockClasses = TokenListRef
  /\ Truthy(opts.variants)

\* The variants that are both listed and carried by the element before the call.
ListedAndCarried == Range(VariantList(opts.variants)) \cap Range(classList0)

\* No listed variant is the composed token of a listed variant the element carries.
NoChainedVariant ==
  \A w \in ListedAndCarried :
    BEM(opts.blockName.s, w) \notin Range(VariantList(opts.variants))

\* C1 as stated: for every non-empty block name B, token set S with token V
\* and variants argument containing V, after the call S no longer contains V
\* and contains B--V.
C1_AsStated ==
  (calls = 1 /\ ArgsPresent) =>
    \A v \in ListedAndCarried :
      /\ ~Contains(classList, v)
      /\ Contains(classList, BEM(opts.blockName.s, v))

\* C1 (amended): when the block name is a valid class token (no whitespace)
\* and no listed variant is the composed token B--W of a listed variant W the
\* set carries, then after the call every listed variant V the set carried is
\* gone from the set, B--V is in the set, and the call raised nothing.
C1_Postcondition ==
  (calls = 1 /\ ArgsPresent /\ ~HasWhitespace(opts.blockName.s) /\ NoChainedVariant) =>
    /\ thrown = "none"
    /\ \A v \in ListedAndCarried :
         /\ ~Contains(classList, v)
         /\ Contains(classList, BEM(opts.blockName.s, v))

\* C1 witness: a call with a two-entry variant list, of which the second entry
\* was carried by the element and has been replaced by its composed token.
C1_Witness ==
  /\ calls = 1 /\ ArgsPresent /\ ~HasWhitespace(opts.blockName.s) /\ NoChainedVariant
  /\ opts.variants.t = "array" /\ Len(opts.variants.l) = 2
  /\ opts.variants.l[1] # opts.variants.l[2]
  /\ opts.variants.l[2] \in Range(classList0)
  /\ Contains(classList, BEM(opts.blockName.s, opts.variants.l[2]))
  /\ Len(classList0) = 2

\* C2 as stated: for every block name, token set and variants argument, a
\* second call with the same arguments leaves the set as the first call left it.
C2_AsStated == calls = 2 => classList = after1

\* C2 (amended): when the block name is a valid class token (no whitespace)
\* and no listed variant is the composed token B--W of a listed variant W the
\* set carries, a second call with the same arguments leaves the set exactly
\* as the first call left it (same tokens, same order).
C2_Idempotent ==
  (calls = 2 /\ (ArgsPresent => (~HasWhitespace(opts.blockName.s) /\ NoChainedVariant))) =>
    classList = after1

\* C2 witness: two calls were made, the first of which changed the set.
C2_Witness ==
  /\ calls = 2 /\ ArgsPresent /\ ~HasWhitespace(opts.blockName.s) /\ NoChainedVariant
  /\ after1 # classList0
  /\ Cardinality(ListedAndCarried) = 2
  /\ classList = after1

\* C7: when blockName, blockClasses or variants is falsy, or the options
\* object is omitted, the call raises nothing and leaves the token set as it was.
C7_NoOpOnMissing ==
  (calls >= 1 /\ ~(opts.given /\ Truthy(opts.blockName) /\ Truthy(opts.blockClasses)
                    /\ Truthy(opts.variants))) =>
    /\ thrown = "none"
    /\ classList = classList0

\* C7 witness: a call with an empty block name, on an element that carries a
\* listed variant, has returned.
C7_Witness ==
  /\ calls = 1 /\ opts.given
  /\ opts.blockName = Str("")
  /\ opts.blockClasses = TokenListRef
  /\ Truthy(opts.variants)
  /\ ListedAndCarried # {}
  /\ classList = classList0

(***************************************************************************)
(* Claims about the auto-block pass (SpecHero).                            *)
(***************************************************************************)
\* main's descendants before the pass, in document order.
Order0 == Descendants(kids0, MainNode)
HadH1 == \E i \in 1..Len(Order0) : tag[Order0[i]] = "h1"
HadPicture == \E i \in 1..Len(Order0) : tag[Order0[i]] = "picture"
FirstIndex(t) ==
  CHOOSE i \in 1..Len(Order0) :
    tag[Order0[i]] = t /\ \A j \in 1..(i - 1) : tag[Order0[j]] # t
FirstH1 == Order0[FirstIndex("h1")]
FirstPicture == Order0[FirstIndex("picture")]
\* main had an h1 and a picture, and the first picture came before the first h1.
PictureFirst == HadH1 /\ HadPicture /\ FirstIndex("picture") < FirstIndex("h1")

\* buildAutoBlocks has returned and nothing has run since.
JustPassed == autoPc = "passed" /\ importState \in {"none", "pending"} /\ ~heroLoaded

\* No fragment load has touched the page (yet).
NoFragmentInserted ==
  \A a \in Range(fragments) : fragElem[a] = 0 /\ fragLoad[a] # "done"

\* Node n is the child of exactly one node, p.
OnlyChildOf(n, p) == \A m \in 1..Len(kids) : (n \in Range(kids[m])) <=> (m = p)

\* C3: when main has a first h1 and a first picture and the picture precedes
\* the h1, then after the auto-block pass main's first child is a newly created
\* wrapper whose only child is a new hero block carrying the auto-block marker
\* class, whose content is exactly the picture then the h1, moved (each is the
\* child of the block and of no other node).
C3_HeroBuilt ==
  (JustPassed /\ PictureFirst) =>
    /\ Len(kids[MainNode]) >= 1
    /\ LET section == kids[MainNode][1]
       IN /\ section > Len(kids0)
          /\ tag[section] = "div"
          /\ Len(kids[section]) = 1
          /\ LET heroBlock == kids[section][1]
             IN /\ heroBlock > Len(kids0)
                /\ Contains(cls[heroBlock], "hero")
                /\ Contains(cls[heroBlock], "auto-block")
                /\ kids[heroBlock] = <<FirstPicture, FirstH1>>
                /\ OnlyChildOf(FirstPicture, heroBlock)
                /\ OnlyChildOf(FirstH1, heroBlock)
    /\ log = <<>>

\* C3 witness: the pass has built the hero from a picture that sat inside a
\* paragraph, in front of the paragraph's other content.
C3_Witness ==
  /\ JustPassed /\ PictureFirst
  /\ Parent(kids0, FirstPicture) # MainNode
  /\ Len(kids[MainNode]) = 3
  /\ kids[kids[kids[MainNode][1]][1]] = <<FirstPicture, FirstH1>>

\* C8: when main has no h1, or no picture, or its first h1 precedes its first
\* picture, the pass changes no child list, creates no node (no hero block, no
\* wrapper section) and logs nothing.
C8_HeroUntouched ==
  (autoPc = "passed" /\ NoFragmentInserted /\ ~PictureFirst) =>
    /\ kids = kids0
    /\ Len(tag) = Len(kids0)
    /\ \A n \in 1..Len(cls) : ~Contains(cls[n], "hero")
    /\ ~Contains(log, "Auto Blocking failed")

\* C8 witness: the pass ran on a main whose first h1 comes before its first picture.
C8_Witness ==
  /\ JustPassed /\ HadH1 /\ HadPicture /\ ~PictureFirst
  /\ kids = kids0

\* Every fragment load that was started has settled.
AllSettled ==
  /\ importState = "resolved"
  /\ \A a \in Range(fragments) : fragLoad[a] \in {"done", "failed"}

\* C6 as stated: whatever the completion order and outcomes of the fragment
\* loads, every failure is logged without stopping the others, and every
\* anchor whose load succeeded ends up replaced in the page by the first
\* element of its fragment.
C6_AsStated ==
  AllSettled =>
    /\ Len(log) = Cardinality({a \in Range(fragments) : fragLoad[a] = "failed"})
    /\ \A a \in Range(fragments) :
         fragElem[a] # 0 => (InPage(kids, fragElem[a]) /\ ~InPage(kids, a))

(***************************************************************************)
(* Claims about the page life cycle (SpecPage, SpecPageFair).              *)
(***************************************************************************)
Happened(e) == e \in Range(events)
\* If b has happened, a happened before it.
Before(a, b) == Happened(b) => (Happened(a) /\ IndexOf(events, a) < IndexOf(events, b))
\* If a has happened and b has happened, a came first.
NotAfter(a, b) == (Happened(a) /\ Happened(b)) => IndexOf(events, a) < IndexOf(events, b)
\* A call that was made has returned or settled before e.
SettledBefore(call, settled, e) == (Happened(call) /\ Happened(e)) => Before(settled, e)

MainExists == Len(tag) >= MainNode /\ tag[MainNode] = "main"
LazyTasks ==
  {"lazy:loadHeader", "lazy:loadFooter", "lazy:loadCSS(lazy-styles)", "lazy:loadFonts"}

\* C4 as stated: all the work the eager phase started has completed before the
\* lazy phase begins, and all the work the lazy phase started (sections,
\* header, footer, lazy stylesheet, fonts) has completed before the timer of
\* the delayed phase is armed.
C4_AsStated ==
  /\ Happened("loadLazy:call") =>
       (Happened("loadEager:return") /\ tasks["eager:loadFonts"] # "pending")
  /\ timer # "idle" =>
       (Happened("loadSections:settled") /\ \A t \in LazyTasks : tasks[t] = "settled")

\* C4 (amended): everything loadEager awaits (template, theme, the first
\* section) has settled and loadEager has returned before loadLazy is called;
\* loadSections has settled, the header, footer, lazy stylesheet and font
\* loads have been started (not necessarily finished) and loadLazy has returned
\* before the timer is armed, and the timer is armed with a delay of 3000.
C4_PhaseOrder ==
  /\ Before("loadEager:return", "loadLazy:call")
  /\ SettledBefore("loadTemplate:call", "loadTemplate:return", "loadLazy:call")
  /\ SettledBefore("loadTheme:call", "loadTheme:return", "loadLazy:call")
  /\ SettledBefore("loadSection:call", "loadSection:settled", "loadLazy:call")
  /\ NotAfter("eager:loadFonts", "loadLazy:call")
  /\ Before("loadSections:settled", "setTimeout")
  /\ Before("loadLazy:return", "setTimeout")
  /\ \A t \in LazyTasks : Before(t, "setTimeout")
  /\ timer # "idle" =>
       /\ Happened("setTimeout")
       /\ timerDelay = DelayedTimeout
       /\ \A t \in LazyTasks : tasks[t] # "idle"

\* C4 witness: the timer is armed while the header, the footer and the fonts
\* started in the eager phase are still loading.
C4_Witness ==
  /\ timer = "armed"
  /\ tasks["eager:loadFonts"] = "pending"
  /\ tasks["lazy:loadHeader"] = "pending"
  /\ tasks["lazy:loadFooter"] = "pending"
  /\ Happened("loadTemplate:return")

TemplateFailures ==
  {"loadCSS(template):rejected", "import(template):rejected",
   "template.default(main):rejected"}
TemplateFailed == \E e \in TemplateFailures : Happened(e)
ThemeFailed == Happened("loadCSS(theme):rejected")

\* A section load of the block library rejected: the one failure that
\* loadEager and loadLazy leave uncaught.
SectionLoadRejected ==
  Happened("loadSection:rejected") \/ Happened("loadSections:rejected")

\* C5: a failure of the template stylesheet, the template module import, the
\* template's default export or the theme stylesheet is caught and logged by
\* loadTemplate or loadTheme, which returns; it never aborts the eager phase
\* (loadPage rejects only when a section load rejects), main is decorated
\* after it, and the page load goes on to start the header and footer loads
\* in the lazy phase unless a section load rejects on the way.
C5_FailureIsolated ==
  /\ [](TemplateFailed =>
          /\ Contains(log, "failed to load template " \o template)
          /\ Happened("loadTemplate:return")
          /\ pc = "rejected" => SectionLoadRejected)
  /\ [](ThemeFailed =>
          /\ Contains(log, "failed to load theme " \o theme)
          /\ Happened("loadTheme:return")
          /\ pc = "rejected" => SectionLoadRejected)
  /\ (TemplateFailed \/ ThemeFailed) ~>
       /\ Happened("decorateBlocks")
       /\ \/ tasks["lazy:loadHeader"] # "idle" /\ tasks["lazy:loadFooter"] # "idle"
          \/ SectionLoadRejected

\* C5 witness: the template's module import and the theme's stylesheet both
\* failed, and the header and footer loads have been started.
C5_Witness ==
  /\ Happened("import(template):rejected")
  /\ ThemeFailed
  /\ Len(log) = 2
  /\ Happened("decorateBlocks")
  /\ tasks["lazy:loadHeader"] # "idle"
  /\ tasks["lazy:loadFooter"] # "idle"

\* C10: in the eager phase with a main element, the template is resolved
\* (stylesheet, then import, then the default export, invoked at most once)
\* before the theme is started, the theme before decorateMain; decorateMain
\* runs buttons, icons, auto-blocks (the hero pass, exactly once), sections,
\* blocks in that order; the appear class is added after decorateMain and
\* before the first section's load is called; fonts are started only after
\* that load has settled.
C10_EagerOrder ==
  MainExists =>
    /\ Before("loadTemplate:call", "loadTemplate:return")
    /\ NotAfter("loadCSS(template)", "import(template)")
    /\ Before("loadCSS(template)", "import(template)")
    /\ Before("import(template)", "template.default(main)")
    /\ Count(events, "template.default(main)") <= 1
    /\ Before("template.default(main)", "template.default(main):rejected")
    /\ Before("loadTemplate:return", "loadTheme:call")
    /\ NotAfter("template.default(main)", "loadTheme:call")
    /\ Before("loadTheme:return", "decorateButtons")
    /\ Before("decorateButtons", "decorateIcons")
    /\ Before("decorateIcons", "buildAutoBlocks")
    /\ Before("buildAutoBlocks", "decorateSections")
    /\ Before("decorateSections", "decorateBlocks")
    /\ \A e \in {"decorateButtons", "decorateIcons", "buildAutoBlocks",
                 "decorateSections", "decorateBlocks"} : Count(events, e) <= 1
    /\ (autoPc = "passed") <=> Happened("buildAutoBlocks")
    /\ Before("decorateBlocks", "appear")
    /\ Contains(cls[BodyNode], "appear") <=> Happened("appear")
    /\ Before("appear", "loadSection:call")
    /\ Before("loadSection:call", "loadSection:settled")
    /\ Before("loadSection:settled", "eager:loadFonts")

\* C10 witness: the eager phase has run to its end on a page with main, a
\* template with a default export and a theme; the hero was built and the
\* fonts were started.
C10_Witness ==
  /\ MainExists
  /\ pc = "eagerReturned"
  /\ Happened("template.default(main)")
  /\ Happened("loadCSS(theme)")
  /\ Happened("eager:loadFonts")
  /\ HeroBlockOf(DOM, MainNode) # 0
  /\ heroLoaded
  /\ Contains(cls[BodyNode], "appear")

====
